---------------------------- MODULE Spec2Model ----------------------------
(***************************************************************************)
(* The two example notebooks of cgnet as one state machine.                *)
(*                                                                         *)
(*   "variable" : examples/Variable-Sized-Data-With-CGSchNet.ipynb         *)
(*   "schnet"   : the CGSchNet-embeddings tutorial (unnamed/part_000)      *)
(*                                                                         *)
(* The state is the notebook's global namespace plus the position of the   *)
(* kernel in the list of code cells.  A cell is one action; a cell that    *)
(* holds a loop is one action per iteration.  A raised exception stops the *)
(* run (no cell has a try/except).                                         *)
(*                                                                         *)
(* Arrays are sequences: an example is a sequence of beads, a coordinate   *)
(* or force bead is a 3-tuple, an embedding bead is an integer.  Python    *)
(* indices are 0-based, the sequences here are 1-based.                    *)
(***************************************************************************)
EXTENDS Integers, Sequences, FiniteSets, TLC

VARIABLES
    notebook,             \* which notebook the kernel runs
    pc,                   \* index of the next code cell to run
    data_file,            \* contents of ./data/ala2_{coordinates,forces}.npy
    coords,               \* notebook globals, as named in the notebooks
    forces,
    embeddings,
    random_lengths,
    varied_coords,
    varied_forces,
    varied_embeddings,
    varied_dataset,       \* MultiMoleculeDataset / (schnet) ala_data
    output,               \* the items the inspection cell has printed so far
    loader,               \* the DataLoader last bound to loader / trainloader
    batch,                \* the batch last taken from the demonstration loader
    hyper,                \* num_epochs, n_embeddings, batch_size, save_model
    epoch,                \* the training loop variable (0 before the loop)
    n,                    \* batches done in the running epoch (schnet)
    at,                   \* position inside the training cell
    epochal_train_losses, \* one entry per finished epoch: the epoch it is of
    saved,                \* torch.save has written the model file
    training,             \* nn.Module.training of the network
    sim,                  \* what Simulation(...) was constructed on
    error                 \* the exception that stopped the run, if any

vars == <<notebook, pc, data_file, coords, forces, embeddings, random_lengths,
          varied_coords, varied_forces, varied_embeddings, varied_dataset,
          output, loader, batch, hyper, epoch, n, at, epochal_train_losses,
          saved, training, sim, error>>

(***************************************************************************)
(* Bounds of the model.                                                    *)
(***************************************************************************)
MaxFrames == 4    \* frames in the data files: 1..MaxFrames

(***************************************************************************)
(* Helpers.                                                                *)
(***************************************************************************)
Min(a, b) == IF a < b THEN a ELSE b

MaxOf(S) == IF S = {} THEN 0 ELSE CHOOSE m \in S : \A x \in S : x <= m

Range(s) == {s[i] : i \in DOMAIN s}

\* python s[:k] on the leading axis: the first k entries, all of s when k
\* exceeds its length
Take(s, k) == SubSeq(s, 1, Min(k, Len(s)))

(***************************************************************************)
(* The data files.  Dialanine has 5 coarse-grained beads; every frame of   *)
(* both files has 5 beads of 3 numbers.  File contents are inputs: frame i *)
(* bead j of file f is given by the formulas below, which make beads of a  *)
(* frame differ and put all-zero beads into real data.                     *)
(***************************************************************************)
ala2_n_beads == 5

\* the contents of the data files that are tried
DataFiles == {1, 2}

CoordBead(f, i, j) == <<((f * i + j) % 3) - 1, (i * j) % 2, (j - 1) % f>>
ForceBead(f, i, j) == <<j - 3, (f + i) % 2, 0 - ((i + j) % 3)>>

Zero3 == <<0, 0, 0>>

FileContents(f, frames) ==
    [coordinates |-> [i \in 1..frames |->
                        [j \in 1..ala2_n_beads |-> CoordBead(f, i, j)]],
     forces      |-> [i \in 1..frames |->
                        [j \in 1..ala2_n_beads |-> ForceBead(f, i, j)]]]

\* np.load(path)
np_load(path) == data_file[path]

\* np.tile(row, [reps, 1])
np_tile(row, reps) == [i \in 1..reps |-> row]

\* the bead types numbered from 0
BeadTypes_zero_based == <<0, 1, 0, 0, 1>>

\* embeddings = np.tile([6, 7, 6, 6, 7], [coords.shape[0], 1])
BeadTypes == <<6, 7, 6, 6, 7>>
MakeEmbeddings(c) == np_tile(BeadTypes, Len(c))

(***************************************************************************)
(* The code cells of the two notebooks, in file order, and the step of the *)
(* pipeline each belongs to.                                               *)
(***************************************************************************)
VariableCells ==
    <<"setup", "load", "truncate", "dataset", "inspect", "collate_demo",
      "hyper", "embedding_layer", "schnet_feature", "model",
      "train_setup", "train", "plot_loss",
      "sim_params", "simulate",
      "analyze", "plot_scatter", "def_ramachandran", "plot_ramachandran">>

SchnetCells ==
    <<"setup", "load_arrays", "embeddings", "dataset",
      "stats", "geometry_feature", "hyper", "schnet_feature", "combiner",
      "layers", "priors", "model",
      "train_setup", "train", "plot_loss",
      "sim_params", "simulate",
      "analyze", "plot_scatter", "def_ramachandran", "plot_ramachandran">>

Cells == IF notebook = "variable" THEN VariableCells ELSE SchnetCells

Pipeline == <<"data load", "dataset construction", "model construction",
              "training loop", "simulation", "plotting">>

StageOf(cell) ==
    CASE cell \in {"setup", "load", "load_arrays"} -> 1
      [] cell \in {"truncate", "embeddings", "dataset", "inspect",
                   "collate_demo"} -> 2
      [] cell \in {"stats", "geometry_feature", "hyper", "embedding_layer",
                   "schnet_feature", "combiner", "layers", "priors",
                   "model"} -> 3
      [] cell \in {"train_setup", "train", "plot_loss"} -> 4
      [] cell \in {"sim_params", "simulate"} -> 5
      [] OTHER -> 6

Finished == pc > Len(Cells)
Running  == ~error.raised /\ ~Finished
Cell     == IF Finished THEN "end" ELSE Cells[pc]
AtCell(c) == Running /\ Cell = c

NoError == [raised |-> FALSE, pc |-> 0, epoch |-> 0, losses |-> 0,
            inside |-> "none"]
\* the exception record: where the kernel stood when it was raised; inside is
\* "epoch" when it was raised by the body of the epoch loop, else "cell"
RaiseAt(e, inside) == [raised |-> TRUE, pc |-> pc, epoch |-> e,
                       losses |-> Len(epochal_train_losses),
                       inside |-> inside]

NoLoader == [batch_size |-> 0, shuffle |-> FALSE]
NoHyper  == [num_epochs |-> 0, n_embeddings |-> 0, batch_size |-> 0,
             save_model |-> FALSE]
NoSim    == [constructed |-> FALSE, epochs |-> 0, training |-> TRUE,
             simulated |-> FALSE]
NoBatch  == [coords |-> <<>>, forces |-> <<>>, embeddings |-> <<>>,
             indices |-> <<>>]

Init ==
    /\ notebook \in {"variable", "schnet"}
    /\ pc = 1
    /\ \E f \in DataFiles, frames \in 1..MaxFrames :
           data_file = FileContents(f, frames)
    /\ coords = <<>>
    /\ forces = <<>>
    /\ embeddings = <<>>
    /\ random_lengths = <<>>
    /\ varied_coords = <<>>
    /\ varied_forces = <<>>
    /\ varied_embeddings = <<>>
    /\ varied_dataset = <<>>
    /\ output = <<>>
    /\ loader = NoLoader
    /\ batch = NoBatch
    /\ hyper = NoHyper
    /\ epoch = 0
    /\ n = 0
    /\ at = "for_epoch"
    /\ epochal_train_losses = <<>>
    /\ saved = FALSE
    /\ training = TRUE
    /\ sim = NoSim
    /\ error = NoError

(***************************************************************************)
(* cgnet.feature, as the notebook documents it.                            *)
(*                                                                         *)
(* MultiMoleculeDataset(coordinates_list, forces_list, embeddings_list)    *)
(* keeps one dictionary per example; len() is the number of examples and   *)
(* __getitem__(indices) returns the dictionaries at those indices.         *)
(***************************************************************************)
MultiMoleculeDataset(coordinates_list, forces_list, embeddings_list) ==
    [i \in 1..Len(coordinates_list) |->
        [coords     |-> coordinates_list[i],
         forces     |-> forces_list[i],
         embeddings |-> embeddings_list[i]]]

\* MoleculeDataset(coords, forces, embeddings): fixed-size arrays, the item
\* at i is the triple of the three arrays' rows i
MoleculeDataset(c, f, e) ==
    [i \in 1..Len(c) |-> [coords |-> c[i], forces |-> f[i], embeddings |-> e[i]]]

\* len(dataset)
len(dataset) == Len(dataset)

\* dataset.__getitem__(indices), indices a list of 0-based indices; defined
\* when every index is in range (IndexError otherwise)
InRange(dataset, indices) ==
    \A k \in DOMAIN indices : indices[k] >= 0 /\ indices[k] < len(dataset)
getitem(dataset, indices) ==
    [k \in DOMAIN indices |-> dataset[indices[k] + 1]]

\* torch.nn.utils.rnn.pad_sequence(sequences, batch_first=True): every
\* sequence is extended at its end with zeros to the longest one's length
\* padding to the full molecule instead of the longest sequence given
pad_sequence_full(sequences, zero) ==
    [k \in DOMAIN sequences |->
        [j \in 1..ala2_n_beads |->
            IF j <= Len(sequences[k]) THEN sequences[k][j] ELSE zero]]

pad_sequence(sequences, zero) ==
    LET longest == MaxOf({Len(sequences[k]) : k \in DOMAIN sequences})
    IN  [k \in DOMAIN sequences |->
            [j \in 1..longest |->
                IF j <= Len(sequences[k]) THEN sequences[k][j] ELSE zero]]

\* multi_molecule_collate(input_dictionaries): pads the coordinates, the
\* forces and the embeddings of the examples of one batch
multi_molecule_collate(input_dictionaries) ==
    [coords     |-> pad_sequence([k \in DOMAIN input_dictionaries |->
                                    input_dictionaries[k].coords], Zero3),
     forces     |-> pad_sequence([k \in DOMAIN input_dictionaries |->
                                    input_dictionaries[k].forces], Zero3),
     embeddings |-> pad_sequence([k \in DOMAIN input_dictionaries |->
                                    input_dictionaries[k].embeddings], 0)]

(***************************************************************************)
(* torch.utils.data.DataLoader.  One pass over a dataset of size N visits  *)
(* the indices 0..N-1 in order, or in any order when shuffled, cut into    *)
(* consecutive batches of batch_size (the last one may be shorter).        *)
(***************************************************************************)
RECURSIVE Shuffles(_)
Shuffles(S) ==
    IF S = {} THEN {<<>>}
    ELSE UNION {{<<x>> \o rest : rest \in Shuffles(S \ {x})} : x \in S}

Orders(N, shuffle) ==
    IF shuffle
    THEN Shuffles(0..(N - 1))
    ELSE {[k \in 1..N |-> k - 1]}

NumBatches(N, batch_size) == (N + batch_size - 1) \div batch_size

\* the indices of batch number b (from 1) of one pass in order o
BatchIndices(o, batch_size, b) ==
    SubSeq(o, (b - 1) * batch_size + 1, Min(b * batch_size, Len(o)))

\* what the loader yields for these indices with collate_fn
Fetch(dataset, indices) ==
    LET padded == multi_molecule_collate(getitem(dataset, indices))
    IN  [coords     |-> padded.coords,
         forces     |-> padded.forces,
         embeddings |-> padded.embeddings,
         indices    |-> indices]

(***************************************************************************)
(* The cells.                                                              *)
(***************************************************************************)
dataVars   == <<coords, forces, embeddings>>
variedVars == <<random_lengths, varied_coords, varied_forces,
                varied_embeddings>>
trainVars  == <<epoch, n, at, epochal_train_losses, saved>>
fixedVars  == <<notebook, data_file>>

\* coords = np.load(...); forces = np.load(...); embeddings = np.tile(...)
LoadData ==
    /\ AtCell("load")
    /\ coords' = np_load("coordinates")
    /\ forces' = np_load("forces")
    /\ embeddings' = MakeEmbeddings(coords')
    /\ pc' = pc + 1
    /\ UNCHANGED <<fixedVars, variedVars, varied_dataset, output, loader,
                   batch, hyper, trainVars, training, sim, error>>

\* (schnet) coords = np.load(...); forces = np.load(...)
LoadArrays ==
    /\ AtCell("load_arrays")
    /\ coords' = np_load("coordinates")
    /\ forces' = np_load("forces")
    /\ pc' = pc + 1
    /\ UNCHANGED <<fixedVars, embeddings, variedVars, varied_dataset, output,
                   loader, batch, hyper, trainVars, training, sim, error>>

\* (schnet) embeddings = np.tile([6, 7, 6, 6, 7], [coords.shape[0], 1])
TileEmbeddings ==
    /\ AtCell("embeddings")
    /\ embeddings' = MakeEmbeddings(coords)
    /\ pc' = pc + 1
    /\ UNCHANGED <<fixedVars, coords, forces, variedVars, varied_dataset,
                   output, loader, batch, hyper, trainVars, training, sim,
                   error>>

\* np.random.randint(low, high=high, ...): low inclusive, high exclusive
randint(low, high) == low..(high - 1)

\* the lengths drawn from 1: np.random.randint(1, high=6, ...)
RandomLengthValues_from_one == randint(1, 6)

RandomLengthValues == randint(2, 6)

\* random_lengths = np.random.randint(2, high=6, size=len(coords)) and the
\* three empty lists
DrawLengths ==
    /\ AtCell("truncate")
    /\ random_lengths = <<>>
    /\ random_lengths' \in [1..Len(coords) -> RandomLengthValues]
    /\ varied_coords' = <<>>
    /\ varied_forces' = <<>>
    /\ varied_embeddings' = <<>>
    /\ UNCHANGED <<fixedVars, pc, dataVars, varied_dataset, output, loader,
                   batch, hyper, trainVars, training, sim, error>>

\* the three slices of one iteration: coords[num, :length, :],
\* forces[num, :length, :], embeddings[num, :length]
\* the forces appended without the slice: forces[num]
VariedExample_forces_whole(num, length) ==
    [coords     |-> Take(coords[num + 1], length),
     forces     |-> forces[num + 1],
     embeddings |-> Take(embeddings[num + 1], length)]

VariedExample(num, length) ==
    [coords     |-> Take(coords[num + 1], length),
     forces     |-> Take(forces[num + 1], length),
     embeddings |-> Take(embeddings[num + 1], length)]

\* one iteration of: for num, length in enumerate(random_lengths)
TruncateStep ==
    /\ AtCell("truncate")
    /\ random_lengths # <<>>
    /\ Len(varied_coords) < Len(random_lengths)
    /\ LET num    == Len(varied_coords)
           length == random_lengths[num + 1]
           ex     == VariedExample(num, length)
       IN  /\ varied_coords' = Append(varied_coords, ex.coords)
           /\ varied_forces' = Append(varied_forces, ex.forces)
           /\ varied_embeddings' = Append(varied_embeddings, ex.embeddings)
           /\ pc' = IF num + 1 = Len(random_lengths) THEN pc + 1 ELSE pc
    /\ UNCHANGED <<fixedVars, dataVars, random_lengths, varied_dataset,
                   output, loader, batch, hyper, trainVars, training, sim,
                   error>>

\* varied_dataset = MultiMoleculeDataset(varied_coords, varied_forces,
\*                                       varied_embeddings)
\* (schnet) ala_data = MoleculeDataset(coords, forces, embeddings)
\* the lists passed in another order:
\* MultiMoleculeDataset(varied_forces, varied_coords, varied_embeddings)
MakeDataset_swapped ==
    /\ AtCell("dataset")
    /\ varied_dataset' =
         IF notebook = "variable"
         THEN MultiMoleculeDataset(varied_forces, varied_coords,
                                   varied_embeddings)
         ELSE MoleculeDataset(forces, coords, embeddings)
    /\ pc' = pc + 1
    /\ UNCHANGED <<fixedVars, dataVars, variedVars, output, loader, batch,
                   hyper, trainVars, training, sim, error>>

MakeDataset ==
    /\ AtCell("dataset")
    /\ varied_dataset' =
         IF notebook = "variable"
         THEN MultiMoleculeDataset(varied_coords, varied_forces,
                                   varied_embeddings)
         ELSE MoleculeDataset(coords, forces, embeddings)
    /\ pc' = pc + 1
    /\ UNCHANGED <<fixedVars, dataVars, variedVars, output, loader, batch,
                   hyper, trainVars, training, sim, error>>

\* indices = [0, 1, 2]
indices == <<0, 1, 2>>

\* one iteration of: output = varied_dataset.__getitem__([index])[0]
InspectStep ==
    /\ AtCell("inspect")
    /\ LET index == indices[Len(output) + 1]
       IN  /\ InRange(varied_dataset, <<index>>)
           /\ output' = Append(output, getitem(varied_dataset, <<index>>)[1])
    /\ pc' = IF Len(output) + 1 = Len(indices) THEN pc + 1 ELSE pc
    /\ UNCHANGED <<fixedVars, dataVars, variedVars, varied_dataset, loader,
                   batch, hyper, trainVars, training, sim, error>>

\* the same iteration on a dataset with fewer than 3 examples: IndexError
InspectFails ==
    /\ AtCell("inspect")
    /\ ~InRange(varied_dataset, <<indices[Len(output) + 1]>>)
    /\ error' = RaiseAt(epoch, "cell")
    /\ UNCHANGED <<fixedVars, pc, dataVars, variedVars, varied_dataset,
                   output, loader, batch, hyper, trainVars, training, sim>>

\* loader = DataLoader(varied_dataset, batch_size=3, shuffle=False,
\*                     collate_fn=multi_molecule_collate)
\* for num, batch in enumerate(loader):
\*     coords, forces, embeddings = batch ... break
\* the batch unpacked in another order: forces, coords, embeddings = batch
CollateDemo_swapped ==
    /\ AtCell("collate_demo")
    /\ loader' = [batch_size |-> 3, shuffle |-> FALSE]
    /\ \E o \in Orders(len(varied_dataset), loader'.shuffle) :
          batch' = Fetch(varied_dataset,
                         BatchIndices(o, loader'.batch_size, 1))
    /\ forces' = batch'.coords
    /\ coords' = batch'.forces
    /\ embeddings' = batch'.embeddings
    /\ pc' = pc + 1
    /\ UNCHANGED <<fixedVars, variedVars, varied_dataset, output, hyper,
                   trainVars, training, sim, error>>

CollateDemo ==
    /\ AtCell("collate_demo")
    /\ loader' = [batch_size |-> 3, shuffle |-> FALSE]
    /\ \E o \in Orders(len(varied_dataset), loader'.shuffle) :
          batch' = Fetch(varied_dataset,
                         BatchIndices(o, loader'.batch_size, 1))
    /\ coords' = batch'.coords
    /\ forces' = batch'.forces
    /\ embeddings' = batch'.embeddings
    /\ pc' = pc + 1
    /\ UNCHANGED <<fixedVars, variedVars, varied_dataset, output, hyper,
                   trainVars, training, sim, error>>

\* the hyperparameter cell.  save_model is the switch the reader of the
\* tutorial sets; it is False as shipped and both settings are followed.
Hyperparameters ==
    /\ AtCell("hyper")
    /\ \E save_model \in BOOLEAN :
          hyper' = [num_epochs   |-> IF notebook = "variable" THEN 15 ELSE 5,
                    n_embeddings |-> 10,
                    batch_size   |-> 512,
                    save_model   |-> save_model]
    /\ pc' = pc + 1
    /\ UNCHANGED <<fixedVars, dataVars, variedVars, varied_dataset, output,
                   loader, batch, trainVars, training, sim, error>>

\* cells that only call into the library or matplotlib and bind objects the
\* model does not follow
OpaqueCells ==
    {"setup", "stats", "geometry_feature", "embedding_layer",
     "schnet_feature", "combiner", "layers", "priors", "model", "plot_loss",
     "sim_params", "analyze", "plot_scatter", "def_ramachandran",
     "plot_ramachandran"}

RunCell ==
    /\ Running
    /\ Cell \in OpaqueCells
    /\ pc' = pc + 1
    /\ UNCHANGED <<fixedVars, dataVars, variedVars, varied_dataset, output,
                   loader, batch, hyper, trainVars, training, sim, error>>

\* loader = DataLoader(varied_dataset, batch_size=512, shuffle=True,
\*                     collate_fn=multi_molecule_collate)
\* (schnet) trainloader = DataLoader(ala_data, sampler=RandomSampler(ala_data),
\*                                   batch_size=batch_size)
\*          epochal_train_losses = []
\* (variable) epochal_train_losses = [] is the first statement of the training
\* cell, which is the next cell
TrainSetup ==
    /\ AtCell("train_setup")
    /\ loader' = [batch_size |-> IF notebook = "variable" THEN 512
                                 ELSE hyper.batch_size,
                  shuffle    |-> TRUE]
    /\ epochal_train_losses' = <<>>
    /\ pc' = pc + 1
    /\ UNCHANGED <<fixedVars, dataVars, variedVars, varied_dataset, output,
                   batch, hyper, epoch, n, at, saved, training, sim, error>>

\* range(1, num_epochs)
EpochRange_short == 1..(hyper.num_epochs - 1)

\* range(1, num_epochs+1)
EpochRange == 1..((hyper.num_epochs + 1) - 1)

\* (variable) one iteration of the epoch loop:
\*     train_loss = dataset_loss(variable_model, loader, optimizer, ...)
\*     scheduler.step()
\*     epochal_train_losses.append(train_loss)
TrainEpoch ==
    /\ AtCell("train")
    /\ notebook = "variable"
    /\ epoch + 1 \in EpochRange
    /\ epoch' = epoch + 1
    /\ epochal_train_losses' = Append(epochal_train_losses, epoch')
    /\ UNCHANGED <<fixedVars, pc, dataVars, variedVars, varied_dataset,
                   output, loader, batch, hyper, n, at, saved, training, sim,
                   error>>

\* the append in a finally clause: the loss list grows although dataset_loss
\* raised
TrainEpochFails_finally ==
    /\ AtCell("train")
    /\ notebook = "variable"
    /\ epoch + 1 \in EpochRange
    /\ epoch' = epoch + 1
    /\ epochal_train_losses' = Append(epochal_train_losses, epoch')
    /\ error' = RaiseAt(epoch', "epoch")
    /\ UNCHANGED <<fixedVars, pc, dataVars, variedVars, varied_dataset,
                   output, loader, batch, hyper, n, at, saved, training, sim>>

\* (variable) the same iteration when dataset_loss raises
TrainEpochFails ==
    /\ AtCell("train")
    /\ notebook = "variable"
    /\ epoch + 1 \in EpochRange
    /\ epoch' = epoch + 1
    /\ error' = RaiseAt(epoch', "epoch")
    /\ UNCHANGED <<fixedVars, pc, dataVars, variedVars, varied_dataset,
                   output, loader, batch, hyper, n, at, epochal_train_losses,
                   saved, training, sim>>

\* (schnet) for epoch in range(1, num_epochs+1): train_loss = 0.00; n = 0
EpochBegin ==
    /\ AtCell("train")
    /\ notebook = "schnet"
    /\ at = "for_epoch"
    /\ epoch + 1 \in EpochRange
    /\ epoch' = epoch + 1
    /\ n' = 0
    /\ at' = "for_batch"
    /\ UNCHANGED <<fixedVars, pc, dataVars, variedVars, varied_dataset,
                   output, loader, batch, hyper, epochal_train_losses, saved,
                   training, sim, error>>

\* the batches one pass over trainloader has
TrainBatches == NumBatches(len(varied_dataset), loader.batch_size)

\* (schnet) one iteration of: for num, batch in enumerate(trainloader)
\*     zero_grad, forward, criterion, backward, optimizer.step,
\*     lipschitz_projection, train_loss += batch_loss, n += 1
BatchStep ==
    /\ AtCell("train")
    /\ at = "for_batch"
    /\ n < TrainBatches
    /\ n' = n + 1
    /\ UNCHANGED <<fixedVars, pc, dataVars, variedVars, varied_dataset,
                   output, loader, batch, hyper, epoch, at,
                   epochal_train_losses, saved, training, sim, error>>

\* (schnet) a call in the body of the epoch loop raises
BatchFails ==
    /\ AtCell("train")
    /\ at = "for_batch"
    /\ error' = RaiseAt(epoch, "epoch")
    /\ UNCHANGED <<fixedVars, pc, dataVars, variedVars, varied_dataset,
                   output, loader, batch, hyper, trainVars, training, sim>>

\* (schnet) after the batches of an epoch:
\*     train_loss /= n; epochal_train_losses.append(train_loss);
\*     scheduler.step()
EpochEnd ==
    /\ AtCell("train")
    /\ at = "for_batch"
    /\ n = TrainBatches
    /\ n > 0
    /\ epochal_train_losses' = Append(epochal_train_losses, epoch)
    /\ at' = "for_epoch"
    /\ UNCHANGED <<fixedVars, pc, dataVars, variedVars, varied_dataset,
                   output, loader, batch, hyper, epoch, n, saved, training,
                   sim, error>>

\* after the epoch loop: if save_model: torch.save(...)
SaveModel ==
    /\ AtCell("train")
    /\ at = "for_epoch"
    /\ epoch + 1 \notin EpochRange
    /\ saved' = hyper.save_model
    /\ pc' = pc + 1
    /\ UNCHANGED <<fixedVars, dataVars, variedVars, varied_dataset, output,
                   loader, batch, hyper, epoch, n, at, epochal_train_losses,
                   training, sim, error>>

\* the simulation cell up to the Simulation object:
\*     (variable) coords, forces, embeddings are loaded again
\*     model.eval()
\*     sim = Simulation(model, initial_coords, sim_embeddings, ...)
\* gives the new globals, the mode of the network and the new sim
SimulationSetup ==
    [coords     |-> IF notebook = "variable" THEN np_load("coordinates")
                    ELSE coords,
     forces     |-> IF notebook = "variable" THEN np_load("forces")
                    ELSE forces,
     embeddings |-> IF notebook = "variable"
                    THEN MakeEmbeddings(np_load("coordinates"))
                    ELSE embeddings,
     training   |-> FALSE,
     epochs     |-> Len(epochal_train_losses)]

\* the simulation cell: the setup, then traj = sim.simulate()
Simulate ==
    /\ AtCell("simulate")
    /\ LET s == SimulationSetup
       IN  /\ coords' = s.coords
           /\ forces' = s.forces
           /\ embeddings' = s.embeddings
           /\ training' = s.training
           /\ sim' = [constructed |-> TRUE, epochs |-> s.epochs,
                      training |-> s.training, simulated |-> TRUE]
    /\ pc' = pc + 1
    /\ UNCHANGED <<fixedVars, variedVars, varied_dataset, output, loader,
                   batch, hyper, trainVars, error>>

\* the simulation cell when sim.simulate() raises
SimulateFails ==
    /\ AtCell("simulate")
    /\ LET s == SimulationSetup
       IN  /\ coords' = s.coords
           /\ forces' = s.forces
           /\ embeddings' = s.embeddings
           /\ training' = s.training
           /\ sim' = [constructed |-> TRUE, epochs |-> s.epochs,
                      training |-> s.training, simulated |-> FALSE]
    /\ error' = RaiseAt(epoch, "cell")
    /\ UNCHANGED <<fixedVars, pc, variedVars, varied_dataset, output, loader,
                   batch, hyper, trainVars>>

\* any cell: the call the kernel is about to make raises.  No cell of either
\* notebook has a try/except, so the exception ends the run where it stands.
\* In the training cell this is torch.save after the loop; the body of the
\* loop has its own failing steps above.
CellFails ==
    /\ Running
    /\ Cell = "train" => (at = "for_epoch" /\ epoch + 1 \notin EpochRange)
    /\ error' = RaiseAt(epoch, "cell")
    /\ UNCHANGED <<fixedVars, pc, dataVars, variedVars, varied_dataset,
                   output, loader, batch, hyper, trainVars, training, sim>>

Next ==
    \/ LoadData
    \/ LoadArrays
    \/ TileEmbeddings
    \/ DrawLengths
    \/ TruncateStep
    \/ MakeDataset
    \/ InspectStep
    \/ InspectFails
    \/ CollateDemo
    \/ Hyperparameters
    \/ RunCell
    \/ TrainSetup
    \/ TrainEpoch
    \/ TrainEpochFails
    \/ EpochBegin
    \/ BatchStep
    \/ BatchFails
    \/ EpochEnd
    \/ SaveModel
    \/ Simulate
    \/ SimulateFails
    \/ CellFails

Spec == Init /\ [][Next]_vars

(***************************************************************************)
(* Properties.                                                             *)
(***************************************************************************)
Keys == {"coords", "forces", "embeddings"}

\* the lists of the truncation cell are complete
Truncated == random_lengths # <<>> /\ Len(varied_coords) = Len(random_lengths)

\* C4: the three lists are in the same order and consistent: they have the
\* same length, and for every index i the entries at i are the first
\* random_lengths[i] beads of the coordinates, the forces and the embeddings
\* of frame i of the data, so the three have the same number of beads.
C4_ListsConsistent ==
    /\ Len(varied_forces) = Len(varied_coords)
    /\ Len(varied_embeddings) = Len(varied_coords)
    /\ Len(varied_coords) <= Len(random_lengths)
    /\ \A i \in 1..Len(varied_coords) :
          /\ varied_coords[i] =
                SubSeq(data_file.coordinates[i], 1, random_lengths[i])
          /\ varied_forces[i] =
                SubSeq(data_file.forces[i], 1, random_lengths[i])
          /\ varied_embeddings[i] = SubSeq(BeadTypes, 1, random_lengths[i])
          /\ Len(varied_forces[i]) = Len(varied_coords[i])
          /\ Len(varied_embeddings[i]) = Len(varied_coords[i])

\* the lists are complete, hold several examples, and two of them differ in
\* length
C4_Witness ==
    /\ Truncated
    /\ varied_dataset # <<>>
    /\ \E i, j \in 1..Len(varied_coords) :
          Len(varied_coords[i]) < Len(varied_coords[j])

\* C5: every truncated example has between 2 and 5 beads, in its
\* coordinates, its forces and its embeddings, whatever lengths are drawn.
C5_BeadsBetween2And5 ==
    \A i \in 1..Len(varied_coords) :
        /\ Len(varied_coords[i]) \in 2..ala2_n_beads
        /\ Len(varied_forces[i]) \in 2..ala2_n_beads
        /\ Len(varied_embeddings[i]) \in 2..ala2_n_beads

\* a complete draw with an example of 2 beads and one of the full 5
C5_Witness ==
    /\ Truncated
    /\ \E i, j \in 1..Len(varied_coords) :
          Len(varied_coords[i]) = 2 /\ Len(varied_coords[j]) = ala2_n_beads

\* C6: the dataset has as many items as examples were passed in, and the item
\* at every index is a dictionary with exactly the keys coords, forces and
\* embeddings holding that index's entries of the three lists, unpadded; the
\* items the inspection cell printed are those of indices 0, 1, 2.
C6_DatasetRoundTrip ==
    (notebook = "variable" /\ varied_dataset # <<>>) =>
        /\ len(varied_dataset) = Len(varied_coords)
        /\ \A i \in 0..(Len(varied_coords) - 1) :
              LET item == getitem(varied_dataset, <<i>>)[1]
              IN  /\ DOMAIN item = Keys
                  /\ item.coords = varied_coords[i + 1]
                  /\ item.forces = varied_forces[i + 1]
                  /\ item.embeddings = varied_embeddings[i + 1]
                  /\ Len(item.coords) = random_lengths[i + 1]
        /\ \A k \in 1..Len(output) :
              /\ DOMAIN output[k] = Keys
              /\ output[k].coords = varied_coords[indices[k] + 1]
              /\ output[k].forces = varied_forces[indices[k] + 1]
              /\ output[k].embeddings = varied_embeddings[indices[k] + 1]

\* the inspection cell has printed its three items, of different sizes
C6_Witness ==
    /\ notebook = "variable"
    /\ Len(output) = Len(indices)
    /\ Len(output[1].coords) # Len(output[2].coords)
    /\ output[1].coords # output[1].forces

(***************************************************************************)
(* Batches.                                                                *)
(***************************************************************************)
\* the number of beads of the dataset's example at 0-based index ix
ExampleLen(ix) == Len(varied_dataset[ix + 1].coords)

\* M is the largest bead count among the examples at the indices ix
IsLargest(M, ix) ==
    /\ \A k \in DOMAIN ix : ExampleLen(ix[k]) <= M
    /\ \E k \in DOMAIN ix : ExampleLen(ix[k]) = M

\* every batch one pass over the loader can yield from the dataset
LoaderBatches ==
    {Fetch(varied_dataset, BatchIndices(o, loader.batch_size, b)) :
        o \in Orders(len(varied_dataset), loader.shuffle),
        b \in 1..NumBatches(len(varied_dataset), loader.batch_size)}

\* a loader over the variable-length dataset has just been made: the
\* demonstration loader (batch_size 3, in order) or the training loader
\* (batch_size 512, shuffled).  The batches do not depend on save_model, so
\* those of the training loader are enumerated for the setting as shipped.
LoaderFresh ==
    /\ notebook = "variable"
    /\ Running
    /\ \/ Cell = "hyper"
       \/ Cell = "train" /\ epoch = 0 /\ ~hyper.save_model

\* the batch the demonstration cell took, as the notebook's globals hold it
DemoBatch == [coords |-> coords, forces |-> forces, embeddings |-> embeddings,
              indices |-> batch.indices]
DemoBatchBound ==
    notebook = "variable" /\ batch # NoBatch /\ ~sim.constructed

PaddedToLargest(b) ==
    /\ Len(b.coords) = Len(b.indices)
    /\ Len(b.forces) = Len(b.indices)
    /\ Len(b.embeddings) = Len(b.indices)
    /\ \E M \in 1..ala2_n_beads :
          /\ IsLargest(M, b.indices)
          /\ \A k \in DOMAIN b.indices :
                /\ Len(b.coords[k]) = M
                /\ Len(b.forces[k]) = M
                /\ Len(b.embeddings[k]) = M

\* C1: in every batch collated from the variable-length dataset the
\* coordinates, the forces and the embeddings have one bead dimension, the
\* largest bead count among the examples of that batch.
C1_PaddedToLargestInBatch ==
    /\ DemoBatchBound => PaddedToLargest(batch) /\ PaddedToLargest(DemoBatch)
    /\ LoaderFresh => \A b \in LoaderBatches : PaddedToLargest(b)

\* the demonstration batch holds an example shorter than its bead dimension,
\* and the dataset holds an example longer than that dimension
C1_Witness ==
    /\ DemoBatchBound
    /\ \E k \in DOMAIN batch.indices :
          ExampleLen(batch.indices[k]) < Len(batch.coords[k])
    /\ \E i \in 1..len(varied_dataset) :
          ExampleLen(i - 1) > Len(batch.coords[1])

PaddedAtEnd(b) ==
    \A k \in DOMAIN b.indices :
        LET ex == varied_dataset[b.indices[k] + 1]
            L  == Len(ex.coords)
        IN  /\ L <= Len(b.coords[k])
            /\ \A j \in DOMAIN b.coords[k] :
                  b.coords[k][j] = IF j <= L THEN ex.coords[j] ELSE Zero3
            /\ \A j \in DOMAIN b.forces[k] :
                  b.forces[k][j] = IF j <= L THEN ex.forces[j] ELSE Zero3
            /\ \A j \in DOMAIN b.embeddings[k] :
                  b.embeddings[k][j] = IF j <= L THEN ex.embeddings[j] ELSE 0

\* C2: zeros are appended only at the end: for an example of L beads in a
\* batch, entries 0..L-1 of its padded coordinates, forces and embeddings are
\* the example's own values in their order, and all later entries are zero.
C2_ZerosAppendedAtEnd ==
    /\ DemoBatchBound => PaddedAtEnd(DemoBatch)
    /\ LoaderFresh => \A b \in LoaderBatches : PaddedAtEnd(b)

\* the demonstration batch pads an example whose beads are not all zero and
\* whose coordinates differ from its forces
C2_Witness ==
    /\ DemoBatchBound
    /\ \E k \in DOMAIN batch.indices :
          /\ ExampleLen(batch.indices[k]) < Len(coords[k])
          /\ coords[k][1] # Zero3
          /\ coords[k][1] # forces[k][1]
          /\ coords[k][Len(coords[k])] = Zero3

RealEmbedding(e) ==
    /\ e \in {6, 7}
    /\ e >= 1
    /\ hyper # NoHyper => e <= hyper.n_embeddings

ZeroIffPadded(b) ==
    \A k \in DOMAIN b.indices :
        \A j \in DOMAIN b.embeddings[k] :
            (b.embeddings[k][j] = 0) <=> (j > ExampleLen(b.indices[k]))

\* C3: 0 is the padding integer: every embedding of a real bead is 6 or 7,
\* within 1..n_embeddings and never 0, so an embedding entry of a collated
\* batch is 0 exactly at the padded positions.
C3_ZeroReservedForPadding ==
    /\ \A i \in 1..Len(varied_embeddings) :
          \A j \in DOMAIN varied_embeddings[i] :
              RealEmbedding(varied_embeddings[i][j])
    /\ \A i \in 1..len(varied_dataset) :
          \A j \in DOMAIN varied_dataset[i].embeddings :
              RealEmbedding(varied_dataset[i].embeddings[j])
    /\ DemoBatchBound => ZeroIffPadded(DemoBatch)
    /\ LoaderFresh => \A b \in LoaderBatches : ZeroIffPadded(b)

\* n_embeddings is set and the demonstration batch has a padded embedding
C3_Witness ==
    /\ DemoBatchBound
    /\ hyper # NoHyper
    /\ \E k \in DOMAIN embeddings : embeddings[k][Len(embeddings[k])] = 0
    /\ \E k \in DOMAIN embeddings : embeddings[k][Len(embeddings[k])] = 7

(***************************************************************************)
(* The pipeline.                                                           *)
(***************************************************************************)
\* the step of the pipeline the kernel is in: that of its cell, whether the
\* cell is running or has raised; past the last step once every cell has run
Stage == IF Finished THEN Len(Pipeline) + 1 ELSE StageOf(Cell)

DataLoaded       == coords # <<>> /\ forces # <<>>
DatasetBuilt     == embeddings # <<>> /\ varied_dataset # <<>>
ModelBuilt       == hyper # NoHyper
TrainingComplete ==
    /\ hyper.num_epochs > 0
    /\ epochal_train_losses = [e \in 1..hyper.num_epochs |-> e]
    /\ epoch = hyper.num_epochs
    /\ saved = hyper.save_model
Simulated        == sim.constructed /\ sim.simulated

\* C7: the steps run one at a time in the order data load, dataset
\* construction, model construction, training loop, simulation, plotting: a
\* step is entered only when the steps before it have finished, nothing of a
\* step exists before the step is entered, and Simulation is constructed only
\* on a network that has completed all num_epochs epochs and is in eval mode.
C7_StepsInOrder ==
    /\ Stage >= 2 => DataLoaded
    /\ Stage >= 3 => DatasetBuilt
    /\ Stage >= 4 => ModelBuilt
    /\ Stage >= 5 => TrainingComplete
    /\ Stage >= 6 => Simulated
    /\ (random_lengths # <<>> \/ varied_dataset # <<>> \/ batch # NoBatch)
          => Stage >= 2
    /\ hyper # NoHyper => Stage >= 3
    /\ (loader.shuffle \/ epoch > 0 \/ saved) => Stage >= 4
    /\ (sim.constructed \/ ~training) => Stage >= 5
    /\ sim.constructed =>
          /\ sim.epochs = hyper.num_epochs
          /\ ~sim.training
          /\ ~training

\* the variable-size notebook has run to its end with a simulated model
C7_Witness ==
    /\ notebook = "variable"
    /\ Finished
    /\ Simulated
    /\ Len(epochal_train_losses) = 15

=============================================================================
